---- MODULE Spec2Model ----
(***************************************************************************)
(* A model of the Commune card game engine (src/src/card.rs,               *)
(* src/src/poker.rs, src/src/game.rs, src/src/main.rs): the card model,    *)
(* the deck and its dealing, the commune evaluator, the needed-card-set    *)
(* derivation, the probability arithmetic, the parsing of a bet and the    *)
(* game of bets and calls.                                                 *)
(*                                                                         *)
(* A Rank and a Suit are modelled by the name of the enum variant, a Card  *)
(* by the record [suit, rank], a Vec by a sequence, a HashSet by a set.    *)
(* A HandValue is a record whose field kind names the variant.             *)
(* An f64 is modelled by the exact rational it approximates.               *)
(***************************************************************************)
EXTENDS Integers, Sequences, FiniteSets, TLC

VARIABLES
    commune,              \* Commune.cards of the commune under evaluation
    value,                \* the HandValue last passed to contains_hand_value
    contains,             \* what that call returned
    deck,                 \* Deck.cards
    hands,                \* the Hand.cards of every hand dealt so far, in order
    num_cards,            \* the argument of the last deal_cards call
    dealt,                \* what that call returned
    hand,                 \* Hand.cards of the hand under analysis
    overflow_checks,      \* whether the build panics on integer overflow
    called,               \* the last call and its arguments
    returned,             \* what that call returned, or that it panicked
    players,              \* GameState.players
    current_turn,         \* GameState.current_turn
    current_bet           \* GameState.current_bet

vars == <<commune, value, contains, deck, hands, num_cards, dealt,
          hand, overflow_checks, called, returned,
          players, current_turn, current_bet>>

communeVars == <<commune, value, contains>>
deckVars == <<deck, hands, num_cards, dealt>>
handVars == <<hand, overflow_checks, called, returned>>
gameVars == <<players, current_turn, current_bet>>

-----------------------------------------------------------------------------
(* Bounds of the model.                                                    *)

MaxCommune == 5
MaxDeals == 3
MaxHand == 4
MaxPermN == 57
MaxPermK == 4
MaxTokens == 3
MaxPlayers == 3

-----------------------------------------------------------------------------
(* card.rs                                                                 *)

SuitIter == <<"Clubs", "Spades", "Hearts", "Diamonds">>

RankIter == <<"Two", "Three", "Four", "Five", "Six", "Seven", "Eight",
              "Nine", "Ten", "Jack", "Queen", "King", "Ace">>

Suit == {SuitIter[i] : i \in 1..Len(SuitIter)}
Rank == {RankIter[i] : i \in 1..Len(RankIter)}

\* The position of a variant in its enum: what the derived Ord compares.
RankOrd(rank) == CHOOSE i \in 1..Len(RankIter) : RankIter[i] = rank

RankLt(a, b) == RankOrd(a) < RankOrd(b)

to_u8(rank) ==
    CASE rank = "Two" -> 2
      [] rank = "Three" -> 3
      [] rank = "Four" -> 4
      [] rank = "Five" -> 5
      [] rank = "Six" -> 6
      [] rank = "Seven" -> 7
      [] rank = "Eight" -> 8
      [] rank = "Nine" -> 9
      [] rank = "Ten" -> 10
      [] rank = "Jack" -> 11
      [] rank = "Queen" -> 12
      [] rank = "King" -> 13
      [] rank = "Ace" -> 14

Card(suit, rank) == [suit |-> suit, rank |-> rank]

get_all_with_rank(rank) == [i \in 1..Len(SuitIter) |-> Card(SuitIter[i], rank)]

\* Vec::contains
VecContains(cards, card) == \E i \in 1..Len(cards) : cards[i] = card

\* The cards of a Vec, as a set.
Cards(cards) == {cards[i] : i \in 1..Len(cards)}

-----------------------------------------------------------------------------
(* poker.rs: the hand values                                               *)

HighCard(rank) == [kind |-> "HighCard", rank |-> rank]
OnePair(rank) == [kind |-> "OnePair", rank |-> rank]
ThreeOfAKind(rank) == [kind |-> "ThreeOfAKind", rank |-> rank]
Straight(rank) == [kind |-> "Straight", rank |-> rank]
FourOfAKind(rank) == [kind |-> "FourOfAKind", rank |-> rank]

Err(e) == [kind |-> "Err", error |-> e]

\* A constructor that keeps its arguments in the order given.
TwoPair_new_as_given(top_rank, bottom_rank) ==
    IF top_rank # bottom_rank
    THEN [kind |-> "TwoPair", top_rank |-> top_rank, bottom_rank |-> bottom_rank]
    ELSE Err("InvalidArguments")

TwoPair_new(top_rank, bottom_rank) ==
    IF RankLt(bottom_rank, top_rank)
    THEN [kind |-> "TwoPair", top_rank |-> top_rank, bottom_rank |-> bottom_rank]
    ELSE IF RankLt(top_rank, bottom_rank)
    THEN [kind |-> "TwoPair", top_rank |-> bottom_rank, bottom_rank |-> top_rank]
    ELSE Err("InvalidArguments")

\* A constructor without the check of its arguments.
FullHouse_new_unchecked(triple, pair) ==
    [kind |-> "FullHouse", triple |-> triple, pair |-> pair]

FullHouse_new(triple, pair) ==
    IF triple # pair
    THEN [kind |-> "FullHouse", triple |-> triple, pair |-> pair]
    ELSE Err("InvalidArguments")

\* Rank::iter().cartesian_product(Rank::iter()): the first rank varies slowest.
RankPairs ==
    [i \in 1..(Len(RankIter) * Len(RankIter)) |->
        <<RankIter[((i - 1) \div Len(RankIter)) + 1],
          RankIter[((i - 1) % Len(RankIter)) + 1]>>]

\* An enumeration without the filter top > bottom.
TwoPair_all_possible_unfiltered ==
    LET made == [i \in 1..Len(RankPairs) |->
                    TwoPair_new(RankPairs[i][1], RankPairs[i][2])]
    IN SelectSeq(made, LAMBDA r : r.kind # "Err")

TwoPair_all_possible ==
    LET ordered == SelectSeq(RankPairs, LAMBDA p : RankLt(p[2], p[1]))
        made == [i \in 1..Len(ordered) |-> TwoPair_new(ordered[i][1], ordered[i][2])]
    IN SelectSeq(made, LAMBDA r : r.kind # "Err")

FullHouse_all_possible ==
    LET made == [i \in 1..Len(RankPairs) |->
                    FullHouse_new(RankPairs[i][1], RankPairs[i][2])]
    IN SelectSeq(made, LAMBDA r : r.kind # "Err")

HandValue_all_possible ==
    [i \in 1..Len(RankIter) |-> HighCard(RankIter[i])]
    \o [i \in 1..Len(RankIter) |-> OnePair(RankIter[i])]
    \o TwoPair_all_possible
    \o [i \in 1..Len(RankIter) |-> ThreeOfAKind(RankIter[i])]
    \o [i \in 1..Len(RankIter) |-> Straight(RankIter[i])]
    \o FullHouse_all_possible
    \o [i \in 1..Len(RankIter) |-> FourOfAKind(RankIter[i])]

-----------------------------------------------------------------------------
(* poker.rs: Commune                                                       *)

\* A plausible slip: counting the cards of the rank in the commune, a repeated
\* card once per occurrence, instead of testing each of the 4 concrete cards.
contains_x_cards_of_rank_counting(cards, x, rank) ==
    Cardinality({i \in 1..Len(cards) : cards[i].rank = rank}) >= x

RECURSIVE CountPresent(_, _, _)
CountPresent(cards, needed_cards, acc) ==
    IF needed_cards = <<>> THEN acc
    ELSE CountPresent(cards, Tail(needed_cards),
                      acc + (IF VecContains(cards, Head(needed_cards)) THEN 1 ELSE 0))

contains_x_cards_of_rank(cards, x, rank) ==
    LET needed_cards == get_all_with_rank(rank)
        num_cards_found == CountPresent(cards, needed_cards, 0)
    IN num_cards_found >= x

\* A plausible slip: a slice that starts one rank too late (4 ranks, not 5).
contains_straight_short(cards, top_rank) ==
    LET top_rank_index == to_u8(top_rank)
        ranks_in_straight == SubSeq(RankIter, top_rank_index - 4, top_rank_index - 1)
    IN \A i \in 1..Len(ranks_in_straight) :
          LET cards_in_rank == get_all_with_rank(ranks_in_straight[i])
          IN \E j \in 1..Len(cards_in_rank) : VecContains(cards, cards_in_rank[j])

\* all_ranks[top_rank_index - 6 .. top_rank_index - 1] counts from 0 and leaves
\* its end out: SubSeq counts from 1 and keeps its end. u8::from(top_rank) is
\* read as Rank::to_u8, the one conversion of a Rank to a u8 in the source.
contains_straight(cards, top_rank) ==
    LET top_rank_index == to_u8(top_rank)
        ranks_in_straight == SubSeq(RankIter, top_rank_index - 5, top_rank_index - 1)
    IN \A i \in 1..Len(ranks_in_straight) :
          LET cards_in_rank == get_all_with_rank(ranks_in_straight[i])
          IN \E j \in 1..Len(cards_in_rank) : VecContains(cards, cards_in_rank[j])

contains_hand_value(cards, v) ==
    CASE v.kind = "FourOfAKind" -> contains_x_cards_of_rank(cards, 4, v.rank)
      [] v.kind = "FullHouse" ->
            /\ contains_x_cards_of_rank(cards, 3, v.triple)
            /\ contains_x_cards_of_rank(cards, 2, v.pair)
      [] v.kind = "Straight" ->
            IF RankLt(v.rank, "Six") THEN FALSE ELSE contains_straight(cards, v.rank)
      [] v.kind = "ThreeOfAKind" -> contains_x_cards_of_rank(cards, 3, v.rank)
      [] v.kind = "TwoPair" ->
            /\ contains_x_cards_of_rank(cards, 2, v.top_rank)
            /\ contains_x_cards_of_rank(cards, 2, v.bottom_rank)
      [] v.kind = "OnePair" -> contains_x_cards_of_rank(cards, 2, v.rank)
      [] v.kind = "HighCard" -> contains_x_cards_of_rank(cards, 1, v.rank)

None == [kind |-> "None"]

\* No call of a function of Hand has been made.
NoCall == [fn |-> "none"]

\* The cards the communes of the model are drawn from: the four Fives, two
\* Sixes, one card each of Two, Three, Four and Seven, and an Ace.
CommunePool ==
    <<Card("Clubs", "Two"), Card("Spades", "Three"), Card("Hearts", "Four"),
      Card("Clubs", "Five"), Card("Spades", "Five"), Card("Hearts", "Five"),
      Card("Diamonds", "Five"), Card("Diamonds", "Six"), Card("Clubs", "Six"),
      Card("Spades", "Seven"), Card("Clubs", "Ace")>>

\* The lists of n places of the pool, each place at least lo and no place
\* before the one it follows.
RECURSIVE RisingPicks(_, _)
RisingPicks(n, lo) ==
    IF n = 0 THEN {<<>>}
    ELSE UNION {{<<first>> \o rest : rest \in RisingPicks(n - 1, first)} :
                first \in lo..Len(CommunePool)}

\* Every list of at most MaxCommune cards of the pool, a card any number of
\* times, in the order of the pool.
Communes ==
    {[i \in 1..Len(p) |-> CommunePool[p[i]]] :
        p \in UNION {RisingPicks(n, 1) : n \in 0..MaxCommune}}

\* The ranks of the pool, and King, which no card of the pool has.
QueryRanks == {CommunePool[i].rank : i \in 1..Len(CommunePool)} \cup {"King"}

\* The ranks a HandValue carries.
RanksOf(v) ==
    CASE v.kind = "TwoPair" -> {v.top_rank, v.bottom_rank}
      [] v.kind = "FullHouse" -> {v.triple, v.pair}
      [] OTHER -> {v.rank}

\* The values of HandValue::all_possible() over the query ranks.
QueryValues ==
    {v \in {HandValue_all_possible[i] : i \in 1..Len(HandValue_all_possible)} :
        RanksOf(v) \subseteq QueryRanks}

\* A commune of the model, and no deck or hand.
InitCommune ==
    /\ commune \in Communes
    /\ value = None
    /\ contains = FALSE
    /\ deck = <<>>
    /\ hands = <<>>
    /\ num_cards = 0
    /\ dealt = None
    /\ hand = <<>>
    /\ overflow_checks = TRUE
    /\ called = NoCall
    /\ returned = None
    /\ players = <<>>
    /\ current_turn = 0
    /\ current_bet = None

\* One call of contains_hand_value on the commune.
ContainsHandValue(v) ==
    /\ value = None
    /\ value' = v
    /\ contains' = contains_hand_value(commune, v)
    /\ UNCHANGED <<commune, deckVars, handVars, gameVars>>

NextCommune == \E v \in QueryValues : ContainsHandValue(v)

SpecCommune == InitCommune /\ [][NextCommune]_vars

\* The number of distinct cards of a rank that are members of the list.
DistinctOfRank(cards, rank) == Cardinality({c \in Cards(cards) : c.rank = rank})

\* What the rank-count rule asks of a commune, by category.
MeetsThreshold(cards, v) ==
    CASE v.kind = "HighCard" -> DistinctOfRank(cards, v.rank) >= 1
      [] v.kind = "OnePair" -> DistinctOfRank(cards, v.rank) >= 2
      [] v.kind = "ThreeOfAKind" -> DistinctOfRank(cards, v.rank) >= 3
      [] v.kind = "FourOfAKind" -> DistinctOfRank(cards, v.rank) >= 4
      [] v.kind = "TwoPair" ->
            /\ DistinctOfRank(cards, v.top_rank) >= 2
            /\ DistinctOfRank(cards, v.bottom_rank) >= 2
      [] v.kind = "FullHouse" ->
            /\ DistinctOfRank(cards, v.triple) >= 3
            /\ DistinctOfRank(cards, v.pair) >= 2

\* C1: for every commune (duplicates allowed) and every HandValue other than a
\* Straight, contains_hand_value returns true iff the number of distinct cards
\* of each required rank in the commune meets the threshold of the category:
\* 1, 2, 3, 4 for HighCard, OnePair, ThreeOfAKind, FourOfAKind, 2 and 2 for
\* TwoPair, 3 and 2 for FullHouse. A repeated card counts once.
C1_ContainsIffThreshold ==
    (value # None /\ value.kind # "Straight")
        => (contains <=> MeetsThreshold(commune, value))

\* A commune holding one Five twice and no other Five is asked for a pair of
\* Fives, and the answer is no.
C1_Witness ==
    /\ value = OnePair("Five")
    /\ \E i, j \in 1..Len(commune) : i # j /\ commune[i] = commune[j]
                                       /\ commune[i].rank = "Five"
    /\ DistinctOfRank(commune, "Five") = 1
    /\ contains = FALSE

\* The ranks of the cards of a list.
RanksIn(cards) == {cards[i].rank : i \in 1..Len(cards)}

\* C2: contains_hand_value(Straight(t)) is false when t < Six; when t >= Six
\* it is true iff each of the 5 consecutive ranks t-4 .. t has a card in the
\* commune. A commune of Ace, Two, Three, Four, Five satisfies no Straight.
C2_StraightIffFiveRanks ==
    (value # None /\ value.kind = "Straight")
        => /\ RankLt(value.rank, "Six") => ~contains
           /\ ~RankLt(value.rank, "Six") =>
                 (contains <=>
                    \A d \in 0..4 :
                       \E r \in RanksIn(commune) : RankOrd(r) = RankOrd(value.rank) - d)
           /\ RanksIn(commune) = {"Ace", "Two", "Three", "Four", "Five"} => ~contains

\* A commune holding Three, Four, Five, Six, Seven is asked for the straight
\* that ends at Seven, and the answer is yes.
C2_Witness ==
    /\ value = Straight("Seven")
    /\ RanksIn(commune) = {"Three", "Four", "Five", "Six", "Seven"}
    /\ contains = TRUE

-----------------------------------------------------------------------------
(* poker.rs: Deck                                                          *)

full_deck_size == 52

\* Suit::iter().cartesian_product(Rank::iter()): the suit varies slowest.
UnshuffledDeck ==
    [i \in 1..(Len(SuitIter) * Len(RankIter)) |->
        Card(SuitIter[((i - 1) \div Len(RankIter)) + 1],
             RankIter[((i - 1) % Len(RankIter)) + 1])]

\* The shuffles of the model: card i of the shuffled deck is card i * stride
\* (mod 52) of the unshuffled one. Each stride is coprime to 52.
ShuffleStrides == {1, 3, 5, 51}

\* The decks get_full_deck can return, within the shuffles of the model.
get_full_deck ==
    {[i \in 1..Len(UnshuffledDeck) |->
        UnshuffledDeck[((i * stride) % Len(UnshuffledDeck)) + 1]] :
     stride \in ShuffleStrides}

\* A plausible slip: the tail is copied out and the vector keeps every card.
split_off_copy(cards, at) ==
    [kept |-> cards, tail |-> SubSeq(cards, at + 1, Len(cards))]

\* Vec::split_off(at): the vector keeps [0, at) and the tail [at, len) is returned.
split_off(cards, at) ==
    [kept |-> SubSeq(cards, 1, at), tail |-> SubSeq(cards, at + 1, Len(cards))]

\* A plausible slip: splitting at num_cards, which deals all but the first
\* num_cards cards.
deal_cards_front(n) ==
    /\ Len(hands) < MaxDeals
    /\ num_cards' = n
    /\ IF n > Len(deck)
       THEN /\ dealt' = Err("NotEnoughCards")
            /\ UNCHANGED <<deck, hands>>
       ELSE LET split == split_off(deck, n)
            IN /\ dealt' = [kind |-> "Ok", cards |-> split.tail]
               /\ deck' = split.kept
               /\ hands' = Append(hands, split.tail)
    /\ UNCHANGED <<communeVars, handVars, gameVars>>

\* A plausible slip: a deal of more cards than remain hands out what is left.
deal_cards_truncating(n) ==
    /\ Len(hands) < MaxDeals
    /\ num_cards' = n
    /\ LET m == IF n > Len(deck) THEN Len(deck) ELSE n
           split == split_off(deck, Len(deck) - m)
       IN /\ dealt' = [kind |-> "Ok", cards |-> split.tail]
          /\ deck' = split.kept
          /\ hands' = Append(hands, split.tail)
    /\ UNCHANGED <<communeVars, handVars, gameVars>>

\* Deck::deal_cards. hands records each hand returned; at most MaxDeals hands
\* are dealt in a run of the model.
deal_cards(n) ==
    /\ Len(hands) < MaxDeals
    /\ num_cards' = n
    /\ IF n > Len(deck)
       THEN /\ dealt' = Err("NotEnoughCards")
            /\ UNCHANGED <<deck, hands>>
       ELSE LET split == split_off(deck, Len(deck) - n)
            IN /\ dealt' = [kind |-> "Ok", cards |-> split.tail]
               /\ deck' = split.kept
               /\ hands' = Append(hands, split.tail)
    /\ UNCHANGED <<communeVars, handVars, gameVars>>

\* The sizes asked of deal_cards.
DealSizes == {0, 1, 7, 12, 13, 40, 52, 53}

\* A fresh full deck, and no commune or hand.
InitDeck ==
    /\ deck \in get_full_deck
    /\ hands = <<>>
    /\ num_cards = 0
    /\ dealt = None
    /\ commune = <<>>
    /\ value = None
    /\ contains = FALSE
    /\ hand = <<>>
    /\ overflow_checks = TRUE
    /\ called = NoCall
    /\ returned = None
    /\ players = <<>>
    /\ current_turn = 0
    /\ current_bet = None

NextDeck == \E n \in DealSizes : deal_cards(n)

SpecDeck == InitDeck /\ [][NextDeck]_vars

\* The 52 cards.
AllCards == {Card(s, r) : s \in Suit, r \in Rank}

RECURSIVE Flatten(_)
Flatten(seqs) == IF seqs = <<>> THEN <<>> ELSE Head(seqs) \o Flatten(Tail(seqs))

\* The deck and the hands dealt so far hold each of the 52 cards exactly once.
EveryCardOnce ==
    LET all == deck \o Flatten(hands)
    IN /\ Len(all) = 52
       /\ Cards(all) = AllCards
       /\ Cardinality(AllCards) = 52

\* C3: after any sequence of deal_cards calls, successful or failed, on a
\* fresh full deck, the deck and the hands returned so far hold exactly the 52
\* distinct cards, each once, and the deck never grows.
C3_DeckAndHandsPartition ==
    /\ []EveryCardOnce
    /\ [][Len(deck') <= Len(deck)]_vars

\* Two hands have been dealt and a third deal has failed.
C3_Witness ==
    /\ Len(hands) = 2
    /\ Len(hands[1]) > 0 /\ Len(hands[2]) > 0
    /\ dealt = Err("NotEnoughCards")

\* C4: for a deck of size s and n <= s, deal_cards(n) succeeds, returns the
\* last n cards of the deck and leaves the deck its first s - n cards in
\* order, so that hand size + deck size = s.
C4_DealTakesLastN ==
    [][num_cards' <= Len(deck) =>
        /\ dealt'.kind = "Ok"
        /\ Len(dealt'.cards) = num_cards'
        /\ dealt'.cards = [i \in 1..num_cards' |-> deck[Len(deck) - num_cards' + i]]
        /\ deck' = [i \in 1..(Len(deck) - num_cards') |-> deck[i]]
        /\ Len(dealt'.cards) + Len(deck') = Len(deck)]_vars

\* A deal of 7 cards from the full deck has succeeded.
C4_Witness ==
    /\ dealt.kind = "Ok"
    /\ num_cards = 7
    /\ Len(dealt.cards) = 7
    /\ Len(deck) = 45
    /\ Len(hands) = 1

\* C5: deal_cards(n) fails with NotEnoughCards exactly when n exceeds the size
\* of the deck, and a failed deal leaves the deck as it was; two deals from a
\* full deck whose sizes sum to more than 52 fail on the second call.
C5_FailsIffTooMany ==
    [][/\ (dealt' = Err("NotEnoughCards")) <=> (num_cards' > Len(deck))
       /\ (dealt'.kind = "Ok") <=> (num_cards' <= Len(deck))
       /\ num_cards' > Len(deck) => (deck' = deck /\ hands' = hands)
       /\ (Len(hands) = 1 /\ Len(hands[1]) + num_cards' > 52)
             => dealt' = Err("NotEnoughCards")]_vars

\* 40 cards were dealt from the full deck and a second deal of 40 has failed.
C5_Witness ==
    /\ Len(hands) = 1
    /\ Len(hands[1]) = 40
    /\ num_cards = 40
    /\ dealt = Err("NotEnoughCards")
    /\ Len(deck) = 12

-----------------------------------------------------------------------------
(* Exact arithmetic. A natural number is the sequence of its digits in     *)
(* base 1000, least significant first, with no leading zero; a ratio is a  *)
(* pair of them.                                                           *)

BigBase == 10 * 10 * 10

RECURSIVE BigOf(_)
BigOf(n) == IF n = 0 THEN <<>> ELSE <<n % BigBase>> \o BigOf(n \div BigBase)

RECURSIVE BigTrim(_)
BigTrim(a) ==
    IF a = <<>> THEN <<>>
    ELSE IF a[Len(a)] = 0 THEN BigTrim(SubSeq(a, 1, Len(a) - 1))
    ELSE a

RECURSIVE BigAddCarry(_, _, _)
BigAddCarry(a, b, carry) ==
    IF a = <<>> /\ b = <<>> THEN (IF carry = 0 THEN <<>> ELSE <<carry>>)
    ELSE LET x == IF a = <<>> THEN 0 ELSE Head(a)
             y == IF b = <<>> THEN 0 ELSE Head(b)
             t == x + y + carry
         IN <<t % BigBase>> \o BigAddCarry(IF a = <<>> THEN <<>> ELSE Tail(a),
                                           IF b = <<>> THEN <<>> ELSE Tail(b),
                                           t \div BigBase)

BigAdd(a, b) == BigTrim(BigAddCarry(a, b, 0))

\* a - b, for a >= b.
RECURSIVE BigSubBorrow(_, _, _)
BigSubBorrow(a, b, borrow) ==
    IF a = <<>> THEN <<>>
    ELSE LET y == IF b = <<>> THEN 0 ELSE Head(b)
             t == Head(a) - y - borrow
         IN <<IF t < 0 THEN t + BigBase ELSE t>>
            \o BigSubBorrow(Tail(a), IF b = <<>> THEN <<>> ELSE Tail(b),
                            IF t < 0 THEN 1 ELSE 0)

BigSub(a, b) == BigTrim(BigSubBorrow(a, b, 0))

RECURSIVE BigMulDigit(_, _, _)
BigMulDigit(a, d, carry) ==
    IF a = <<>> THEN (IF carry = 0 THEN <<>> ELSE <<carry>>)
    ELSE LET t == Head(a) * d + carry
         IN <<t % BigBase>> \o BigMulDigit(Tail(a), d, t \div BigBase)

RECURSIVE BigMul(_, _)
BigMul(a, b) ==
    IF a = <<>> \/ b = <<>> THEN <<>>
    ELSE BigAdd(BigTrim(BigMulDigit(a, Head(b), 0)),
                LET rest == BigMul(a, Tail(b))
                IN IF rest = <<>> THEN <<>> ELSE <<0>> \o rest)

RECURSIVE BigPow(_, _)
BigPow(a, n) == IF n = 0 THEN <<1>> ELSE BigMul(a, BigPow(a, n - 1))

\* Whether two ratios of naturals, with denominators not 0, are equal.
RatioEq(p, q) == BigMul(p.num, q.den) = BigMul(q.num, p.den)

-----------------------------------------------------------------------------
(* poker.rs: Hand                                                          *)

Ok(v) == [kind |-> "Ok", value |-> v]
Panic(why) == [kind |-> "Panic", reason |-> why]

\* Itertools::combinations(k) of a list, in its order.
RECURSIVE Combinations(_, _)
Combinations(seq, k) ==
    IF k = 0 THEN << <<>> >>
    ELSE IF Len(seq) < k THEN <<>>
    ELSE LET with == Combinations(Tail(seq), k - 1)
         IN [i \in 1..Len(with) |-> <<Head(seq)>> \o with[i]]
            \o Combinations(Tail(seq), k)

rank_cards_not_in_hand(cards, rank) ==
    SelectSeq(get_all_with_rank(rank), LAMBDA card : ~VecContains(cards, card))

\* One round of the loop of get_needed_cards_for_rank_hand: the augmented
\* hands of i more cards that hold size cards of the rank, each collected
\* into a HashSet.
NeededOfSize(cards, size, rank, i) ==
    LET combinations == Combinations(rank_cards_not_in_hand(cards, rank), i)
        augmented_hands == [j \in 1..Len(combinations) |-> cards \o combinations[j]]
        kept == SelectSeq(augmented_hands,
                          LAMBDA augmented_hand :
                              contains_x_cards_of_rank(augmented_hand, size, rank))
    IN [j \in 1..Len(kept) |-> Cards(kept[j])]

RECURSIVE NeededFrom(_, _, _, _)
NeededFrom(cards, size, rank, i) ==
    LET needed_card_sets == NeededOfSize(cards, size, rank, i)
    IN IF Len(needed_card_sets) > 0 THEN needed_card_sets
       ELSE IF i >= Len(rank_cards_not_in_hand(cards, rank)) THEN needed_card_sets
       ELSE NeededFrom(cards, size, rank, i + 1)

get_needed_cards_for_rank_hand(cards, size, rank) == NeededFrom(cards, size, rank, 0)

get_needed_cards_for_hand_value(cards, hand_value) ==
    CASE hand_value.kind = "HighCard" ->
            Ok(get_needed_cards_for_rank_hand(cards, 1, hand_value.rank))
      [] hand_value.kind = "OnePair" ->
            Ok(get_needed_cards_for_rank_hand(cards, 2, hand_value.rank))
      [] hand_value.kind = "TwoPair" -> Panic("not implemented")
      [] hand_value.kind = "ThreeOfAKind" ->
            Ok(get_needed_cards_for_rank_hand(cards, 3, hand_value.rank))
      [] hand_value.kind = "Straight" -> Panic("not implemented")
      [] hand_value.kind = "FullHouse" -> Panic("not implemented")
      [] hand_value.kind = "FourOfAKind" ->
            Ok(get_needed_cards_for_rank_hand(cards, 4, hand_value.rank))

\* The product of the integers of lo..hi: 1 when the range is empty.
RECURSIVE RangeProduct(_, _)
RangeProduct(lo, hi) ==
    IF lo > hi THEN <<1>> ELSE BigMul(BigOf(hi), RangeProduct(lo, hi - 1))

\* (n - k + 1..=n).product() over usize. When k > n the subtraction n - k
\* overflows: a build with overflow checks panics, and a build without them
\* wraps, so that the range starts at 2^64 + n - k + 1, which is 0 when
\* k = n + 1 and is above n (an empty range) when k > n + 1. Within the
\* bounds of the model no product reaches 2^64.
permutation(n, k, checks) ==
    IF k <= n THEN Ok(RangeProduct(n - k + 1, n))
    ELSE IF checks THEN Panic("attempt to subtract with overflow")
    ELSE IF k = n + 1 THEN Ok(RangeProduct(0, n))
    ELSE Ok(<<1>>)

\* probability_of_each, then the product of the 1.0 - prob: the ratio
\* [num, den] of the product so far, or the panic of a permutation.
RECURSIVE ProbabilityOfNone(_, _, _, _, _)
ProbabilityOfNone(needed_card_sets, other_cards_in_play, total_cards, checks, acc) ==
    IF needed_card_sets = <<>> THEN Ok(acc)
    ELSE LET len == Cardinality(Head(needed_card_sets))
             over == permutation(other_cards_in_play, len, checks)
             under == permutation(total_cards, len, checks)
         IN IF over.kind = "Panic" THEN over
            ELSE IF under.kind = "Panic" THEN under
            ELSE ProbabilityOfNone(
                    Tail(needed_card_sets), other_cards_in_play, total_cards, checks,
                    [num |-> BigMul(acc.num, BigSub(under.value, over.value)),
                     den |-> BigMul(acc.den, under.value)])

\* The Probability returned, as the ratio [num, den].
calculate_hand_probability(cards, hand_value, other_cards_in_play, checks) ==
    LET total_cards == full_deck_size - Len(cards)
        needed_card_sets == get_needed_cards_for_hand_value(cards, hand_value)
    IN IF needed_card_sets.kind = "Panic" THEN needed_card_sets
       ELSE LET probability_of_none ==
                    ProbabilityOfNone(needed_card_sets.value, other_cards_in_play,
                                      total_cards, checks,
                                      [num |-> <<1>>, den |-> <<1>>])
            IN IF probability_of_none.kind = "Panic" THEN probability_of_none
               ELSE Ok([num |-> BigSub(probability_of_none.value.den,
                                       probability_of_none.value.num),
                        den |-> probability_of_none.value.den])

\* The map over HandValue::all_possible(), collected: the pairs so far, or
\* the first panic.
RECURSIVE CollectProbabilities(_, _, _, _, _)
CollectProbabilities(cards, hand_values, other_cards_in_play, checks, acc) ==
    IF hand_values = <<>> THEN Ok(acc)
    ELSE LET hand_value == Head(hand_values)
             probability == calculate_hand_probability(cards, hand_value,
                                                       other_cards_in_play, checks)
         IN IF probability.kind = "Panic" THEN probability
            ELSE CollectProbabilities(cards, Tail(hand_values), other_cards_in_play,
                                      checks,
                                      Append(acc, <<hand_value, probability.value>>))

calculate_hand_value_probabilities(cards, other_cards_in_play, checks) ==
    CollectProbabilities(cards, HandValue_all_possible, other_cards_in_play, checks, <<>>)

\* The cards the hands of the model are drawn from: the four Tens and two Nines.
HandPool ==
    <<Card("Clubs", "Ten"), Card("Clubs", "Nine"), Card("Spades", "Ten"),
      Card("Hearts", "Ten"), Card("Spades", "Nine"), Card("Diamonds", "Ten")>>

\* Every list of at most MaxHand distinct cards of the pool, in the order of
\* the pool.
Hands ==
    LET picks == UNION {[1..n -> 1..Len(HandPool)] : n \in 0..MaxHand}
        rising == {p \in picks : \A i \in 1..(Len(p) - 1) : p[i] < p[i + 1]}
    IN {[i \in 1..Len(p) |-> HandPool[p[i]]] : p \in rising}

\* The values of HandValue::all_possible() over Nine, Ten and Jack.
HandQueryValues ==
    {v \in {HandValue_all_possible[i] : i \in 1..Len(HandValue_all_possible)} :
        RanksOf(v) \subseteq {"Nine", "Ten", "Jack"}}

\* The counts of other cards in play asked about: each at most 52 - |hand|,
\* and none below the 4 cards a rank-count category can need.
OtherCardsInPlay == {4, 11, 40}

\* A hand of the model in either build, and no commune or deck.
InitHand ==
    /\ hand \in Hands
    /\ overflow_checks \in BOOLEAN
    /\ called = NoCall
    /\ returned = None
    /\ commune = <<>>
    /\ value = None
    /\ contains = FALSE
    /\ deck = <<>>
    /\ hands = <<>>
    /\ num_cards = 0
    /\ dealt = None
    /\ players = <<>>
    /\ current_turn = 0
    /\ current_bet = None

\* One call of each function of Hand on the hand.
GetNeededCardsForHandValue(hand_value) ==
    /\ called = NoCall
    /\ called' = [fn |-> "get_needed_cards_for_hand_value", hand_value |-> hand_value]
    /\ returned' = get_needed_cards_for_hand_value(hand, hand_value)
    /\ UNCHANGED <<hand, overflow_checks, communeVars, deckVars, gameVars>>

CalculateHandProbability(hand_value, other_cards_in_play) ==
    /\ called = NoCall
    /\ called' = [fn |-> "calculate_hand_probability", hand_value |-> hand_value,
                  other_cards_in_play |-> other_cards_in_play]
    /\ returned' = calculate_hand_probability(hand, hand_value, other_cards_in_play,
                                              overflow_checks)
    /\ UNCHANGED <<hand, overflow_checks, communeVars, deckVars, gameVars>>

CalculateHandValueProbabilities(other_cards_in_play) ==
    /\ called = NoCall
    /\ called' = [fn |-> "calculate_hand_value_probabilities",
                  other_cards_in_play |-> other_cards_in_play]
    /\ returned' = calculate_hand_value_probabilities(hand, other_cards_in_play,
                                                      overflow_checks)
    /\ UNCHANGED <<hand, overflow_checks, communeVars, deckVars, gameVars>>

NextHand ==
    \/ \E v \in HandQueryValues : GetNeededCardsForHandValue(v)
    \/ \E v \in HandQueryValues, m \in OtherCardsInPlay : CalculateHandProbability(v, m)
    \/ \E m \in OtherCardsInPlay : CalculateHandValueProbabilities(m)

SpecHand == InitHand /\ [][NextHand]_vars

\* Either build, and no hand, commune or deck.
InitPermutation ==
    /\ hand = <<>>
    /\ overflow_checks \in BOOLEAN
    /\ called = NoCall
    /\ returned = None
    /\ commune = <<>>
    /\ value = None
    /\ contains = FALSE
    /\ deck = <<>>
    /\ hands = <<>>
    /\ num_cards = 0
    /\ dealt = None
    /\ players = <<>>
    /\ current_turn = 0
    /\ current_bet = None

\* One call of Hand::permutation.
Permutation(n, k) ==
    /\ called = NoCall
    /\ called' = [fn |-> "permutation", n |-> n, k |-> k]
    /\ returned' = permutation(n, k, overflow_checks)
    /\ UNCHANGED <<hand, overflow_checks, communeVars, deckVars, gameVars>>

NextPermutation == \E n \in 0..MaxPermN, k \in 0..MaxPermK : Permutation(n, k)

SpecPermutation == InitPermutation /\ [][NextPermutation]_vars

\* No hand, commune or deck.
InitValues ==
    /\ hand = <<>>
    /\ overflow_checks = TRUE
    /\ called = NoCall
    /\ returned = None
    /\ commune = <<>>
    /\ value = None
    /\ contains = FALSE
    /\ deck = <<>>
    /\ hands = <<>>
    /\ num_cards = 0
    /\ dealt = None
    /\ players = <<>>
    /\ current_turn = 0
    /\ current_bet = None

\* One call of a constructor or of an enumeration of the hand values.
TwoPairNew(top_rank, bottom_rank) ==
    /\ called = NoCall
    /\ called' = [fn |-> "TwoPair::new", top_rank |-> top_rank,
                  bottom_rank |-> bottom_rank]
    /\ returned' = TwoPair_new(top_rank, bottom_rank)
    /\ UNCHANGED <<hand, overflow_checks, communeVars, deckVars, gameVars>>

FullHouseNew(triple, pair) ==
    /\ called = NoCall
    /\ called' = [fn |-> "FullHouse::new", triple |-> triple, pair |-> pair]
    /\ returned' = FullHouse_new(triple, pair)
    /\ UNCHANGED <<hand, overflow_checks, communeVars, deckVars, gameVars>>

TwoPairAllPossible ==
    /\ called = NoCall
    /\ called' = [fn |-> "TwoPair::all_possible"]
    /\ returned' = TwoPair_all_possible
    /\ UNCHANGED <<hand, overflow_checks, communeVars, deckVars, gameVars>>

FullHouseAllPossible ==
    /\ called = NoCall
    /\ called' = [fn |-> "FullHouse::all_possible"]
    /\ returned' = FullHouse_all_possible
    /\ UNCHANGED <<hand, overflow_checks, communeVars, deckVars, gameVars>>

HandValueAllPossible ==
    /\ called = NoCall
    /\ called' = [fn |-> "HandValue::all_possible"]
    /\ returned' = HandValue_all_possible
    /\ UNCHANGED <<hand, overflow_checks, communeVars, deckVars, gameVars>>

NextValues ==
    \/ \E top_rank \in Rank, bottom_rank \in Rank : TwoPairNew(top_rank, bottom_rank)
    \/ \E triple \in Rank, pair \in Rank : FullHouseNew(triple, pair)
    \/ TwoPairAllPossible
    \/ FullHouseAllPossible
    \/ HandValueAllPossible

SpecValues == InitValues /\ [][NextValues]_vars

-----------------------------------------------------------------------------
(* main.rs: parse_handvalue                                                *)

Some(v) == [kind |-> "Some", value |-> v]

Rank_from_str(s) ==
    CASE s = "2" -> Some("Two")
      [] s = "3" -> Some("Three")
      [] s = "4" -> Some("Four")
      [] s = "5" -> Some("Five")
      [] s = "6" -> Some("Six")
      [] s = "7" -> Some("Seven")
      [] s = "8" -> Some("Eight")
      [] s = "9" -> Some("Nine")
      [] s = "10" -> Some("Ten")
      [] s = "J" -> Some("Jack")
      [] s = "Q" -> Some("Queen")
      [] s = "K" -> Some("King")
      [] s = "A" -> Some("Ace")
      [] OTHER -> None

\* impl From<PokerError> for GameError
GameError_from(e) ==
    CASE e = "InvalidArguments" -> "Poker(InvalidArguments)"
      [] e = "NotEnoughCards" -> "Poker(NotEnoughCards)"

\* A line read is the list of its pieces between single spaces, what
\* split(" ") yields: a piece is its text and whether the end of the line
\* follows it. str::trim drops the end of the line.
Piece(text, newline) == [text |-> text, newline |-> newline]

trim(piece) == piece.text

\* parse_handvalue on what read_line gave: Ok(the pieces of the line) or Err.
\* vec[1] is read before anything is matched, whatever the keyword.
parse_handvalue(input) ==
    IF input.kind = "Err" THEN Err("IO")
    ELSE LET vec == input.value
         IN IF Len(vec) < 2 THEN Panic("index out of bounds")
            ELSE LET hand_keyword == trim(vec[1])
                     rank_one == Rank_from_str(trim(vec[2]))
                     rank_two == IF Len(vec) = 3 THEN Rank_from_str(trim(vec[3]))
                                 ELSE None
                     two_pair == TwoPair_new(rank_one.value, rank_two.value)
                     full_house == FullHouse_new(rank_one.value, rank_two.value)
                 IN IF rank_one = None THEN Err("IO")
                    ELSE CASE hand_keyword = "high" -> Ok(HighCard(rank_one.value))
                           [] hand_keyword = "pair" -> Ok(OnePair(rank_one.value))
                           [] hand_keyword = "twopair" ->
                                IF rank_two = None THEN Err("IO")
                                ELSE IF two_pair.kind = "Err"
                                THEN Err(GameError_from(two_pair.error))
                                ELSE Ok(two_pair)
                           [] hand_keyword = "triple" -> Ok(ThreeOfAKind(rank_one.value))
                           [] hand_keyword = "straight" -> Ok(Straight(rank_one.value))
                           [] hand_keyword = "fullhouse" ->
                                IF rank_two = None THEN Err("IO")
                                ELSE IF full_house.kind = "Err"
                                THEN Err(GameError_from(full_house.error))
                                ELSE Ok(full_house)
                           [] hand_keyword = "quad" -> Ok(FourOfAKind(rank_one.value))
                           [] OTHER -> Err("IO")

\* The texts of the pieces of the lines of the model: the keywords, a word
\* that is no keyword, three rank tokens, a token that is no rank, and the
\* empty piece that two spaces in a row or an empty line give.
Keywords == {"high", "pair", "twopair", "triple", "straight", "fullhouse", "quad"}

PieceTexts == Keywords \cup {"flush", "A", "10", "2", "x", ""}

\* The line of a list of texts: the end of the line follows the last piece.
Line(texts) == [i \in 1..Len(texts) |-> Piece(texts[i], i = Len(texts))]

\* Every line of 1 to MaxTokens pieces, and a failed read.
RECURSIVE TextsOfLen(_)
TextsOfLen(n) ==
    IF n = 0 THEN {<<>>}
    ELSE {Append(texts, t) : texts \in TextsOfLen(n - 1), t \in PieceTexts}

Inputs ==
    {Ok(Line(texts)) : texts \in UNION {TextsOfLen(n) : n \in 1..MaxTokens}}
        \cup {Err("read_line")}

\* No input parsed yet.
InitParse ==
    /\ called = NoCall
    /\ returned = None
    /\ hand = <<>>
    /\ overflow_checks = TRUE
    /\ commune = <<>>
    /\ value = None
    /\ contains = FALSE
    /\ deck = <<>>
    /\ hands = <<>>
    /\ num_cards = 0
    /\ dealt = None
    /\ players = <<>>
    /\ current_turn = 0
    /\ current_bet = None

\* One call of parse_handvalue.
ParseHandValue(input) ==
    /\ called = NoCall
    /\ called' = [fn |-> "parse_handvalue", input |-> input]
    /\ returned' = parse_handvalue(input)
    /\ UNCHANGED <<hand, overflow_checks, communeVars, deckVars, gameVars>>

NextParse == \E input \in Inputs : ParseHandValue(input)

SpecParse == InitParse /\ [][NextParse]_vars

-----------------------------------------------------------------------------
(* game.rs: GameState, and the game loop of main.rs                        *)

Player(name, cards, penalties) ==
    [name |-> name, hand |-> cards, penalties |-> penalties]

is_out(player) == player.penalties >= 3

GameState(game_players, turn, bet, cards) ==
    [players |-> game_players, current_turn |-> turn, current_bet |-> bet,
     deck |-> cards]

\* What returns without a value returns the unit.
Unit == "()"

\* Deck::deal_cards on the cards of a deck: the hand dealt and the deck left.
Deck_deal_cards(cards, n) ==
    IF n > Len(cards) THEN Err("NotEnoughCards")
    ELSE LET split == split_off(cards, Len(cards) - n)
         IN [kind |-> "Ok", cards |-> split.tail, deck |-> split.kept]

\* The loop of deal_hands from player i on: the state it leaves and its
\* result. A failed deal ends the loop with the hands dealt so far in place.
RECURSIVE DealFrom(_, _)
DealFrom(state, i) ==
    IF i > Len(state.players) THEN [state |-> state, result |-> Ok(Unit)]
    ELSE LET n == state.players[i].penalties + 1
             d == Deck_deal_cards(state.deck, n)
         IN IF d.kind = "Err"
            THEN [state |-> state, result |-> Err(GameError_from(d.error))]
            ELSE DealFrom([state EXCEPT !.players[i].hand = d.cards,
                                        !.deck = d.deck], i + 1)

deal_hands(state) == DealFrom(state, 1)

\* create_new_game on a state, with the deck get_full_deck returns to it:
\* the state is replaced only when the hands could be dealt.
create_new_game(state, num_players, full_deck) ==
    LET new_players == [i \in 1..num_players |-> Player(i - 1, <<>>, 0)]
        new_game == deal_hands(GameState(new_players, 0, None, full_deck))
    IN IF new_game.result.kind = "Err"
       THEN [state |-> state, result |-> new_game.result]
       ELSE new_game

\* init_game, with the decks its two calls of get_full_deck return: the
\* result of create_new_game is dropped.
init_game(num_players, first_deck, second_deck) ==
    create_new_game(GameState(<<>>, 0, None, first_deck), num_players,
                    second_deck).state

\* The decks the first get_full_deck of init_game can return. The deck is
\* dropped when create_new_game succeeds, and one deck stands for all then;
\* it is kept when the hands cannot be dealt, which takes over 52 players.
FirstDecks(num_players) ==
    IF num_players > full_deck_size THEN get_full_deck
    ELSE {CHOOSE full_deck \in get_full_deck : TRUE}

\* A plausible slip: a turn that moves on without returning to seat 0.
increment_turn_unwrapped(state) ==
    [state EXCEPT !.current_turn = @ + 1]

increment_turn(state) ==
    LET turn == state.current_turn + 1
    IN [state EXCEPT !.current_turn = IF turn = Len(state.players) THEN 0 ELSE turn]

process_bet(state, bet) == increment_turn([state EXCEPT !.current_bet = Some(bet)])

\* The cards of gather_all_cards: the hands of the players, in seating order.
gather_all_cards(state) ==
    Flatten([i \in 1..Len(state.players) |-> state.players[i].hand])

\* With no player left, players.len() - 1 overflows, and either build
\* panics: one with overflow checks at the subtraction, one without them at
\* the index 2^64 - 1 the subtraction wraps to, which penalize_player uses.
get_previous_player(state) ==
    IF state.current_turn > 0 THEN Ok(state.current_turn - 1)
    ELSE IF Len(state.players) > 0 THEN Ok(Len(state.players) - 1)
    ELSE Panic("attempt to subtract with overflow, or index out of bounds")

\* Vec::remove of the element at a position from 1.
Remove(seq, i) == SubSeq(seq, 1, i - 1) \o SubSeq(seq, i + 1, Len(seq))

penalize_player(state, player) ==
    IF player >= Len(state.players) THEN Panic("index out of bounds")
    ELSE LET penalized == [state EXCEPT !.players[player + 1].penalties = @ + 1]
         IN Ok(IF is_out(penalized.players[player + 1])
               THEN [penalized EXCEPT !.players = Remove(@, player + 1)]
               ELSE penalized)

process_call(state) ==
    IF state.current_bet = None
    THEN [state |-> state, result |-> Err("CallWithNoBet")]
    ELSE LET bet == state.current_bet.value
             penalized_player ==
                 IF contains_hand_value(gather_all_cards(state), bet)
                 THEN Ok(state.current_turn)
                 ELSE get_previous_player(state)
             penalized == penalize_player(state, penalized_player.value)
         IN IF penalized_player.kind = "Panic"
            THEN [state |-> state, result |-> penalized_player]
            ELSE IF penalized.kind = "Panic"
            THEN [state |-> state, result |-> penalized]
            ELSE deal_hands([penalized.value EXCEPT
                                !.current_turn = penalized_player.value,
                                !.current_bet = None])

Bet(bet) == [kind |-> "Bet", value |-> bet]
Call == [kind |-> "Call"]

process_move(state, game_move) ==
    IF game_move.kind = "Bet"
    THEN [state |-> process_bet(state, game_move.value), result |-> Ok(Unit)]
    ELSE process_call(state)

\* state.players[state.current_turn].name, for the prompt of game_loop.
current_player_name(state) ==
    IF state.current_turn < Len(state.players)
    THEN Ok(state.players[state.current_turn + 1].name)
    ELSE Panic("index out of bounds")

\* The lines a player bets with in the model: three bets, a word that is no
\* keyword, and a keyword without a rank.
BetInputs ==
    {Ok(Line(<<"high", "A">>)), Ok(Line(<<"high", "2">>)), Ok(Line(<<"quad", "A">>)),
     Ok(Line(<<"flush", "A">>)), Ok(Line(<<"quad">>))}

\* The GameState of the model.
game == GameState(players, current_turn, current_bet, deck)

\* The program runs until a panic, or an error that game_loop returns.
Running == returned.kind = "Ok"

\* main: new_game() for at most MaxPlayers players.
InitGame ==
    /\ \E num_players \in 0..MaxPlayers, second_deck \in get_full_deck :
         \E first_deck \in FirstDecks(num_players) :
            LET state == init_game(num_players, first_deck, second_deck)
            IN /\ players = state.players
               /\ current_turn = state.current_turn
               /\ current_bet = state.current_bet
               /\ deck = state.deck
               /\ called = [fn |-> "init_game", num_players |-> num_players]
    /\ returned = Ok(Unit)
    /\ overflow_checks = TRUE
    /\ hands = <<>>
    /\ num_cards = 0
    /\ dealt = None
    /\ commune = <<>>
    /\ value = None
    /\ contains = FALSE
    /\ hand = <<>>

\* game_loop: the prompt finds no player at current_turn, and the program
\* panics before it reads a move.
GameLoopAbort ==
    /\ Running
    /\ current_player_name(game).kind = "Panic"
    /\ called' = [fn |-> "game_loop"]
    /\ returned' = current_player_name(game)
    /\ UNCHANGED <<gameVars, deck, communeVars, hands, num_cards, dealt, hand,
                   overflow_checks>>

\* game_loop and process_user_input on "new": a new game replaces the state.
NewGame(num_players, first_deck, second_deck) ==
    /\ Running
    /\ current_player_name(game).kind = "Ok"
    /\ LET state == init_game(num_players, first_deck, second_deck)
       IN /\ players' = state.players
          /\ current_turn' = state.current_turn
          /\ current_bet' = state.current_bet
          /\ deck' = state.deck
    /\ called' = [fn |-> "init_game", num_players |-> num_players]
    /\ returned' = Ok(Unit)
    /\ UNCHANGED <<communeVars, hands, num_cards, dealt, hand, overflow_checks>>

\* process_move on the state of the model.
ProcessMove(game_move) ==
    LET done == process_move(game, game_move)
    IN /\ called' = [fn |-> "process_move", game_move |-> game_move]
       /\ returned' = done.result
       /\ players' = done.state.players
       /\ current_turn' = done.state.current_turn
       /\ current_bet' = done.state.current_bet
       /\ deck' = done.state.deck

\* game_loop and process_user_input on "bet": the bet is parsed from the
\* next line and processed; a line that does not parse ends the program.
PlayBet(input) ==
    /\ Running
    /\ current_player_name(game).kind = "Ok"
    /\ LET handvalue == parse_handvalue(input)
       IN IF handvalue.kind = "Ok"
          THEN ProcessMove(Bet(handvalue.value))
          ELSE /\ called' = [fn |-> "parse_handvalue", input |-> input]
               /\ returned' = handvalue
               /\ UNCHANGED <<gameVars, deck>>
    /\ UNCHANGED <<communeVars, hands, num_cards, dealt, hand, overflow_checks>>

\* game_loop and process_user_input on "call".
PlayCall ==
    /\ Running
    /\ current_player_name(game).kind = "Ok"
    /\ ProcessMove(Call)
    /\ UNCHANGED <<communeVars, hands, num_cards, dealt, hand, overflow_checks>>

NextGame ==
    \/ GameLoopAbort
    \/ \E num_players \in 0..MaxPlayers, second_deck \in get_full_deck :
         \E first_deck \in FirstDecks(num_players) :
            NewGame(num_players, first_deck, second_deck)
    \/ \E input \in BetInputs : PlayBet(input)
    \/ PlayCall

SpecGame == InitGame /\ [][NextGame]_vars

RankCountKinds == {"HighCard", "OnePair", "ThreeOfAKind", "FourOfAKind"}

\* The number of cards of its rank a rank-count category asks for.
Threshold(v) ==
    CASE v.kind = "HighCard" -> 1
      [] v.kind = "OnePair" -> 2
      [] v.kind = "ThreeOfAKind" -> 3
      [] v.kind = "FourOfAKind" -> 4

\* The cards of a rank that a hand does not hold.
Missing(cards, rank) == {c \in AllCards : c.rank = rank} \ Cards(cards)

\* The subsets of k elements of a set.
SubsetsOfSize(S, k) == {T \in SUBSET S : Cardinality(T) = k}

\* The sets of a list of sets.
SetsOf(seq) == {seq[i] : i \in 1..Len(seq)}

\* C6: for every hand and every rank-count category of rank r that does not
\* already hold, every set returned by get_needed_cards_for_hand_value holds
\* only cards of rank r that are not in the hand, every set has the size
\* k = threshold - (cards of rank r held), adding a returned set to the hand
\* makes the category hold, and every k-subset of the missing cards of rank r
\* is returned.
C6_NeededSetsAreMissingCards ==
    (/\ called.fn = "get_needed_cards_for_hand_value"
     /\ called.hand_value.kind \in RankCountKinds
     /\ DistinctOfRank(hand, called.hand_value.rank) < Threshold(called.hand_value))
        => LET v == called.hand_value
               missing == Missing(hand, v.rank)
               k == Threshold(v) - DistinctOfRank(hand, v.rank)
           IN /\ returned.kind = "Ok"
              /\ \A S \in SetsOf(returned.value) :
                    /\ S \subseteq missing
                    /\ Cardinality(S) = k
                    /\ Cardinality({c \in Cards(hand) \cup S : c.rank = v.rank})
                          >= Threshold(v)
              /\ SubsetsOfSize(missing, k) \subseteq SetsOf(returned.value)

\* C7: for every hand that already satisfies a category,
\* get_needed_cards_for_hand_value returns an empty list of needed sets.
C7_NoneNeededWhenSatisfied ==
    (/\ called.fn = "get_needed_cards_for_hand_value"
     /\ contains_hand_value(hand, called.hand_value))
        => returned = Ok(<<>>)

RECURSIVE FallingFactorial(_, _)
FallingFactorial(n, k) == IF k = 0 THEN 1 ELSE n * FallingFactorial(n - 1, k - 1)

\* 1 minus the product, over the k-subsets of the missing cards of the rank,
\* of 1 - P(m, k) / P(52 - |hand|, k), for k = threshold - (cards held) > 0;
\* 0, the empty product taken from 1, when the category already holds.
ClosedFormProbability(cards, v, m) ==
    LET k == Threshold(v) - DistinctOfRank(cards, v.rank)
        sets == IF k > 0 THEN Cardinality(SubsetsOfSize(Missing(cards, v.rank), k)) ELSE 0
        under == BigOf(FallingFactorial(52 - Len(cards), IF k > 0 THEN k ELSE 0))
        over == BigOf(FallingFactorial(m, IF k > 0 THEN k ELSE 0))
    IN [num |-> BigSub(BigPow(under, sets), BigPow(BigSub(under, over), sets)),
        den |-> BigPow(under, sets)]

\* C8: for a hand of one card of rank r and 11 other cards in play,
\* calculate_hand_probability(ThreeOfAKind(r), 11) is 1 - (244/255)^3; in
\* general the result is 1 minus the product over the needed sets of
\* 1 - P(m, k) / P(52 - |hand|, k), k being the number of additional cards.
C8_ProbabilityIsClosedForm ==
    (/\ called.fn = "calculate_hand_probability"
     /\ called.hand_value.kind \in RankCountKinds)
        => /\ returned.kind = "Ok"
           /\ (/\ Len(hand) = 1
               /\ called.hand_value = ThreeOfAKind(hand[1].rank)
               /\ called.other_cards_in_play = 11)
                 => RatioEq(returned.value,
                            [num |-> BigSub(BigPow(BigOf(255), 3), BigPow(BigOf(244), 3)),
                             den |-> BigPow(BigOf(255), 3)])
           /\ RatioEq(returned.value,
                      ClosedFormProbability(hand, called.hand_value,
                                            called.other_cards_in_play))

\* C9: for every hand of distinct cards and every count m of other cards in
\* play, 0 <= m <= 52 - |hand|, calculate_hand_value_probabilities completes
\* and returns 299 entries, one per value of HandValue::all_possible() in its
\* order.
C9_AllProbabilitiesReturned ==
    called.fn = "calculate_hand_value_probabilities"
        => /\ returned.kind = "Ok"
           /\ Len(returned.value) = 299
           /\ \A i \in 1..Len(returned.value) :
                 returned.value[i][1] = HandValue_all_possible[i]

\* C10: for all n and k, permutation(n, k) returns n * (n-1) * ... * (n-k+1):
\* 1 when k = 0 and 0 when k > n, without failing; permutation(5, 2) = 20 and
\* permutation(57, 4) = 9480240.
C10_PermutationIsFallingFactorial ==
    called.fn = "permutation"
        => /\ returned = Ok(BigOf(FallingFactorial(called.n, called.k)))
           /\ called.k = 0 => returned = Ok(BigOf(1))
           /\ called.k > called.n => returned = Ok(BigOf(0))
           /\ (called.n = 5 /\ called.k = 2) => returned = Ok(BigOf(20))
           /\ (called.n = 57 /\ called.k = 4) => returned = Ok(BigOf(9480240))

\* The ranks t-4 .. t of a straight that have no card in a hand.
StraightRanksMissing(cards, top_rank) ==
    {r \in Rank : /\ to_u8(top_rank) - 4 <= to_u8(r)
                  /\ to_u8(r) <= to_u8(top_rank)
                  /\ \A c \in Cards(cards) : c.rank # r}

\* One card of each rank of a set of ranks, in every way.
OneOfEach(ranks) == {{Card(pick[r], r) : r \in ranks} : pick \in [ranks -> Suit]}

\* C11: for a hand and a category Straight(t), t >= Six, that does not already
\* hold, get_needed_cards_for_hand_value returns exactly the sets that hold
\* one card of each rank of t-4 .. t without a card in the hand: 16 sets of
\* two cards when two of the five ranks are missing.
C11_StraightNeededSetsAreProduct ==
    (/\ called.fn = "get_needed_cards_for_hand_value"
     /\ called.hand_value.kind = "Straight"
     /\ to_u8(called.hand_value.rank) >= 6
     /\ ~contains_hand_value(hand, called.hand_value))
        => LET missing == StraightRanksMissing(hand, called.hand_value.rank)
           IN /\ returned.kind = "Ok"
              /\ SetsOf(returned.value) = OneOfEach(missing)
              /\ Cardinality(missing) = 2 => Cardinality(SetsOf(returned.value)) = 16

\* The larger and the smaller of two ranks in the order of the enum.
RankMax(a, b) == IF RankLt(a, b) THEN b ELSE a
RankMin(a, b) == IF RankLt(a, b) THEN a ELSE b

\* C12: for every two distinct ranks a and b, TwoPair::new(a, b) succeeds
\* with top_rank = max(a, b) and bottom_rank = min(a, b), so top_rank >
\* bottom_rank, and it equals what TwoPair::new(b, a) yields.
C12_TwoPairOrdered ==
    (/\ called.fn = "TwoPair::new"
     /\ called.top_rank # called.bottom_rank)
        => /\ returned.kind = "TwoPair"
           /\ returned.top_rank = RankMax(called.top_rank, called.bottom_rank)
           /\ returned.bottom_rank = RankMin(called.top_rank, called.bottom_rank)
           /\ RankLt(returned.bottom_rank, returned.top_rank)
           /\ returned = TwoPair_new(called.bottom_rank, called.top_rank)

\* TwoPair::new was given the lower rank first and returned a pair.
C12_Witness ==
    /\ called.fn = "TwoPair::new"
    /\ RankLt(called.top_rank, called.bottom_rank)
    /\ returned.kind = "TwoPair"
    /\ returned.top_rank = called.bottom_rank

\* Whether a TwoPair or a FullHouse holds the same rank twice.
EqualRanks(v) ==
    CASE v.kind = "TwoPair" -> v.top_rank = v.bottom_rank
      [] v.kind = "FullHouse" -> v.triple = v.pair
      [] OTHER -> FALSE

\* C13: TwoPair::new(r, r) and FullHouse::new(r, r) fail with
\* InvalidArguments; for two distinct ranks both constructors succeed, and
\* FullHouse keeps triple and pair as given; no value of new or of
\* all_possible holds the same rank twice.
C13_EqualRanksRejected ==
    /\ called.fn = "TwoPair::new"
          => /\ called.top_rank = called.bottom_rank
                  => returned = Err("InvalidArguments")
             /\ called.top_rank # called.bottom_rank
                  => returned.kind = "TwoPair" /\ ~EqualRanks(returned)
    /\ called.fn = "FullHouse::new"
          => /\ called.triple = called.pair => returned = Err("InvalidArguments")
             /\ called.triple # called.pair
                  => returned = [kind |-> "FullHouse", triple |-> called.triple,
                                 pair |-> called.pair]
    /\ called.fn \in {"TwoPair::all_possible", "FullHouse::all_possible",
                      "HandValue::all_possible"}
          => \A i \in 1..Len(returned) : ~EqualRanks(returned[i])

\* FullHouse::new was given the same rank twice and failed.
C13_Witness ==
    /\ called.fn = "FullHouse::new"
    /\ called.triple = called.pair
    /\ returned = Err("InvalidArguments")

\* The entries of a list of hand values of one kind.
OfKind(values, kind) == {i \in 1..Len(values) : values[i].kind = kind}

\* C14: HandValue::all_possible() yields exactly 299 pairwise distinct
\* values: 13 HighCard, 13 OnePair, 78 TwoPair (one per unordered pair of
\* distinct ranks), 13 ThreeOfAKind, 13 Straight (one per rank), 156 FullHouse
\* (one per ordered pair of distinct ranks) and 13 FourOfAKind.
C14_AllPossibleCounts ==
    called.fn = "HandValue::all_possible"
        => /\ Len(returned) = 299
           /\ Cardinality(SetsOf(returned)) = 299
           /\ Cardinality(OfKind(returned, "HighCard")) = 13
           /\ Cardinality(OfKind(returned, "OnePair")) = 13
           /\ Cardinality(OfKind(returned, "TwoPair")) = 78
           /\ Cardinality(OfKind(returned, "ThreeOfAKind")) = 13
           /\ Cardinality(OfKind(returned, "Straight")) = 13
           /\ Cardinality(OfKind(returned, "FullHouse")) = 156
           /\ Cardinality(OfKind(returned, "FourOfAKind")) = 13
           /\ \A a \in Rank, b \in Rank :
                 a # b =>
                    /\ Cardinality({i \in OfKind(returned, "TwoPair") :
                            {returned[i].top_rank, returned[i].bottom_rank} = {a, b}}) = 1
                    /\ Cardinality({i \in OfKind(returned, "FullHouse") :
                            returned[i].triple = a /\ returned[i].pair = b}) = 1
           /\ \A r \in Rank :
                 Cardinality({i \in OfKind(returned, "Straight") :
                                 returned[i].rank = r}) = 1

\* HandValue::all_possible() returned, with a straight topped by a Two in it.
C14_Witness ==
    /\ called.fn = "HandValue::all_possible"
    /\ \E i \in 1..Len(returned) : returned[i] = Straight("Two")

\* The category a keyword stands for.
KindOfKeyword(keyword) ==
    CASE keyword = "high" -> "HighCard"
      [] keyword = "pair" -> "OnePair"
      [] keyword = "twopair" -> "TwoPair"
      [] keyword = "triple" -> "ThreeOfAKind"
      [] keyword = "straight" -> "Straight"
      [] keyword = "fullhouse" -> "FullHouse"
      [] keyword = "quad" -> "FourOfAKind"

\* The rank tokens that follow the keyword of a line.
RankTokens(line) ==
    {i \in 2..Len(line) : Rank_from_str(line[i].text) # None}

\* C17: for every input line parse_handvalue returns a HandValue or an
\* error and never aborts: a keyword maps to its category, an unknown keyword
\* or an unrecognized rank token is an error, and twopair and fullhouse are
\* accepted only when followed by exactly 2 rank tokens.
C17_ParseNeverAborts ==
    (called.fn = "parse_handvalue" /\ called.input.kind = "Ok")
        => LET line == called.input.value
               keyword == line[1].text
           IN /\ returned.kind \in {"Ok", "Err"}
              /\ returned.kind = "Ok"
                    => /\ keyword \in Keywords
                       /\ returned.value.kind = KindOfKeyword(keyword)
              /\ keyword \notin Keywords => returned.kind = "Err"
              /\ (Len(line) >= 2 /\ Rank_from_str(line[2].text) = None)
                    => returned.kind = "Err"
              /\ (keyword \in {"twopair", "fullhouse"} /\ returned.kind = "Ok")
                    => (Len(line) = 3 /\ RankTokens(line) = {2, 3})

\* The step is a call processed while a bet is set.
CallProcessed ==
    /\ called'.fn = "process_move"
    /\ called'.game_move = Call
    /\ current_bet # None

\* The seat the claim penalizes: the caller's if the pooled cards of all
\* hands contain the bet, otherwise the seat before it in cyclic order.
SeatToPenalize ==
    IF contains_hand_value(gather_all_cards(game), current_bet.value)
    THEN current_turn
    ELSE (current_turn + Len(players) - 1) % Len(players)

\* C15: when a call is processed while a bet is set, exactly one player gains
\* one penalty, the caller if the pooled cards contain the bet and the
\* previous player otherwise; afterwards the bet is cleared, the turn belongs
\* to the penalized player, and every player holds a fresh hand of
\* penalties + 1 cards: the penalized player one card more than before, the
\* others as many as before.
C15_CallPenalizesOnePlayer ==
    [][CallProcessed =>
        /\ returned' = Ok(Unit)
        /\ Len(players') = Len(players)
        /\ \A i \in 1..Len(players) :
              /\ players'[i].name = players[i].name
              /\ players'[i].penalties =
                    players[i].penalties + (IF i = SeatToPenalize + 1 THEN 1 ELSE 0)
              /\ Len(players'[i].hand) = players'[i].penalties + 1
              /\ Len(players'[i].hand) =
                    Len(players[i].hand) + (IF i = SeatToPenalize + 1 THEN 1 ELSE 0)
              /\ Cards(players'[i].hand) \subseteq Cards(deck)
        /\ current_bet' = None
        /\ current_turn' = SeatToPenalize
        /\ players'[current_turn' + 1].name = players[SeatToPenalize + 1].name
    ]_vars

\* The step is a bet processed.
BetProcessed ==
    /\ called'.fn = "process_move"
    /\ called'.game_move.kind = "Bet"

\* C16: processing a bet sets current_bet to the bet and moves current_turn
\* to the next seat, from the last seat to seat 0; the players, their hands
\* and penalties and the deck stay as they are; the bet is accepted whatever
\* the current bet is.
C16_BetAdvancesTurn ==
    [][BetProcessed =>
        /\ returned' = Ok(Unit)
        /\ current_bet' = Some(called'.game_move.value)
        /\ current_turn' = (current_turn + 1) % Len(players)
        /\ current_turn' < Len(players)
        /\ players' = players
        /\ deck' = deck
    ]_vars

\* A bet was processed in a game of three players and moved the turn from
\* the last seat to seat 0.
C16_Witness ==
    /\ called.fn = "process_move"
    /\ called.game_move = Bet(HighCard("Two"))
    /\ current_bet = Some(HighCard("Two"))
    /\ Len(players) = 3
    /\ current_turn = 0
    /\ returned = Ok(Unit)

\* C18: in every state reached from init_game(n), n >= 1, by bets and calls,
\* while a player remains, current_turn is below players.len(), also right
\* after a call removes a player who reached 3 penalties; the lookup of the
\* current player by the game loop never goes out of range.
C18_TurnIsValidIndex ==
    Len(players) >= 1
        => /\ current_turn < Len(players)
           /\ ~(called.fn = "game_loop" /\ returned.kind = "Panic")

====
